---- MODULE Spec2Model ----
(***************************************************************************)
(* Register-context switch core of generator-rs (x86_64 SysV variant):     *)
(* RegContext (src/src/reg_context.rs) over the naked switch routines and  *)
(* the two-stage trampoline of src/src/detail/x86_64_unix.rs.              *)
(*                                                                         *)
(* The machine is modelled at the level of the instructions the source     *)
(* writes in its asm! blocks: a register file, word-addressed stack        *)
(* memory, and an instruction pointer.  Every asm instruction is an        *)
(* operator on a machine record m = [reg, mem, ok]; an asm block is the    *)
(* composition of its instructions in source order; an action is one       *)
(* uninterrupted run of code between two points where the running logical  *)
(* thread makes a choice or control lands at a new code address.           *)
(***************************************************************************)
EXTENDS Integers, Sequences, FiniteSets, TLC

(***************************************************************************)
(* Bounds of the model.                                                    *)
(***************************************************************************)
\* usize is modelled as a WordBits-bit unsigned word (arithmetic is mod 2^WordBits).
WordBits == 16
\* number of generator contexts besides the native (root) thread
NGen == 2
\* words in each Stack
StackWords == 12
\* nested user call frames a logical thread may hold above its switch
MaxDepth == 1
\* resumes the creator performs in the test_swap_context scenario
MaxResumes == 6
\* operations the program performs in one run
MaxOps == 6

WordMod == 2 ^ WordBits
WordMax == WordMod - 1

\* mem::size_of::<usize>() on the target
WORD == 8

Threads == 0 .. NGen
Gens == 1 .. NGen
NoThread == NGen + 1

(***************************************************************************)
(* Stack (external collaborator): region [begin, end), end the high        *)
(* address, end aligned to 16 bytes.                                       *)
(***************************************************************************)
\* the x86_64 SysV call-frame alignment
ABI_ALIGN == 16
StackStride == 16 * ABI_ALIGN
StackEnd(s) == (s + 1) * StackStride
StackBegin(s) == StackEnd(s) - StackWords * WORD
InStack(s, a) == StackBegin(s) <= a /\ a < StackEnd(s) /\ a % WORD = 0
Addrs == {a \in 0 .. (NGen + 1) * StackStride : \E s \in Threads : InStack(s, a)}

\* the logical thread whose stack holds stack pointer sp (sp = end: empty stack)
Owner(sp) ==
    IF \E s \in Threads : StackBegin(s) <= sp /\ sp <= StackEnd(s)
    THEN CHOOSE s \in Threads : StackBegin(s) <= sp /\ sp <= StackEnd(s)
    ELSE NoThread

(***************************************************************************)
(* Code addresses.  The source fixes the offsets into the trampolines      *)
(* (trampoline_1 + 2, trampoline_2 + 1); where the linker places the       *)
(* symbols is immaterial, any distinct addresses do.                       *)
(***************************************************************************)
TRAMPOLINE_1 == 16384
TRAMPOLINE_2 == 16400
\* `call *16(%rsp)` is the instruction at trampoline_2 + 1; it is 4 bytes long
T2_CALL == TRAMPOLINE_2 + 1
T2_AFTER_CALL == TRAMPOLINE_2 + 5

\* functions of the program using the library
MAIN_FN == 20480
GEN_FN == 20736
TEST_FN == 24576
INIT_FN == 24832
CALLBACK_FN == 25088
Funcs == {MAIN_FN, GEN_FN, TEST_FN, INIT_FN, CALLBACK_FN}
\* code positions inside a function f
Body(f) == f + 16
SwapLabel(f) == f + 32
SwapLinkLabel(f) == f + 48
CallRet(f) == f + 64
Labels == {SwapLabel(f) : f \in Funcs} \cup {SwapLinkLabel(f) : f \in Funcs}
FuncOfLabel(l) == CHOOSE f \in Funcs : l \in {SwapLabel(f), SwapLinkLabel(f)}
FuncOfBody(b) == CHOOSE f \in Funcs : b = Body(f)

\* 0xdeaddeaddead0cfa truncated to the low 16 bits
CFA_POISON == 3322

(***************************************************************************)
(* Machine instructions, as operators on m = [reg, mem, ok].  A memory     *)
(* access outside every Stack faults (ok = FALSE) and the machine stops.   *)
(***************************************************************************)
Fault(m) == [m EXCEPT !.ok = FALSE]

\* pushq %src
Pushq(m, src) ==
    LET a == (m.reg.rsp - WORD) % WordMod IN
    IF ~m.ok THEN m
    ELSE IF a \notin Addrs THEN Fault(m)
    ELSE [m EXCEPT !.mem[a] = m.reg[src], !.reg.rsp = a]

\* popq %dst
Popq(m, dst) ==
    LET a == m.reg.rsp IN
    IF ~m.ok THEN m
    ELSE IF a \notin Addrs THEN Fault(m)
    ELSE [m EXCEPT !.reg[dst] = m.mem[a], !.reg.rsp = (a + WORD) % WordMod]

\* movq %src, %dst
Movq(m, src, dst) == IF ~m.ok THEN m ELSE [m EXCEPT !.reg[dst] = m.reg[src]]

\* movq %src, off(%base)
MovqStore(m, src, off, base) ==
    LET a == (m.reg[base] + off) % WordMod IN
    IF ~m.ok THEN m
    ELSE IF a \notin Addrs THEN Fault(m)
    ELSE [m EXCEPT !.mem[a] = m.reg[src]]

\* leaq label(%rip), %dst
Leaq(m, label, dst) == IF ~m.ok THEN m ELSE [m EXCEPT !.reg[dst] = label]

\* mutant: the register is not cleared
Xorq_Keep(m, r) == m

\* xorq %r, %r
Xorq(m, r) == IF ~m.ok THEN m ELSE [m EXCEPT !.reg[r] = 0]

\* jmpq *%r
Jmpq(m, r) == IF ~m.ok THEN m ELSE [m EXCEPT !.reg.rip = m.reg[r]]

\* call *off(%rsp), the instruction ending at address next
CallMem(m, off, next) ==
    LET t == (m.reg.rsp + off) % WordMod
        a == (m.reg.rsp - WORD) % WordMod IN
    IF ~m.ok THEN m
    ELSE IF t \notin Addrs \/ a \notin Addrs THEN Fault(m)
    ELSE [m EXCEPT !.mem[a] = next, !.reg.rsp = a, !.reg.rip = m.mem[t]]

\* ret
Ret(m) ==
    LET a == m.reg.rsp IN
    IF ~m.ok THEN m
    ELSE IF a \notin Addrs THEN Fault(m)
    ELSE [m EXCEPT !.reg.rip = m.mem[a], !.reg.rsp = (a + WORD) % WordMod]

\* call *%r style indirect call to target, the instruction ending at address next
CallTo(m, target, next) ==
    LET a == (m.reg.rsp - WORD) % WordMod IN
    IF ~m.ok THEN m
    ELSE IF a \notin Addrs THEN Fault(m)
    ELSE [m EXCEPT !.mem[a] = next, !.reg.rsp = a, !.reg.rip = target]

\* binding of an asm! input operand "{r}"(v)
SetReg(m, r, v) == IF ~m.ok THEN m ELSE [m EXCEPT !.reg[r] = v]


(***************************************************************************)
(* StackPointer (external, thin): push is decrement-and-store.             *)
(***************************************************************************)
SpPush(f, v) ==
    LET a == f.sp - WORD IN
    [sp |-> a, mem |-> IF a \in Addrs THEN [f.mem EXCEPT ![a] = v] ELSE f.mem]

\* mutant: the entry function is pushed before the padding
initialize_call_frame_FptrFirst(memory, fptr, s) ==
    LET f0 == [sp |-> StackEnd(s), mem |-> memory]
        f1 == SpPush(f0, fptr)
        f2 == SpPush(f1, 0)
        f3 == SpPush(f2, TRAMPOLINE_1 + 2)
        f4 == SpPush(f3, CFA_POISON)
        frame == f4.sp
        f5 == SpPush(f4, TRAMPOLINE_2 + 1)
        f6 == SpPush(f5, frame)
    IN  f6

\* mutant: the alignment padding word is not pushed
initialize_call_frame_NoPadding(memory, fptr, s) ==
    LET f0 == [sp |-> StackEnd(s), mem |-> memory]
        f2 == SpPush(f0, fptr)
        f3 == SpPush(f2, TRAMPOLINE_1 + 2)
        f4 == SpPush(f3, CFA_POISON)
        frame == f4.sp
        f5 == SpPush(f4, TRAMPOLINE_2 + 1)
        f6 == SpPush(f5, frame)
    IN  f6

(***************************************************************************)
(* initialize_call_frame: the two synthetic call frames on a fresh stack.  *)
(* The result's sp is what the source stores into regs.sp.                 *)
(***************************************************************************)
initialize_call_frame(memory, fptr, s) ==
    LET f0 == [sp |-> StackEnd(s), mem |-> memory]
        f1 == SpPush(f0, 0)
        f2 == SpPush(f1, fptr)
        f3 == SpPush(f2, TRAMPOLINE_1 + 2)
        f4 == SpPush(f3, CFA_POISON)
        frame == f4.sp
        f5 == SpPush(f4, TRAMPOLINE_2 + 1)
        f6 == SpPush(f5, frame)
    IN  f6

\* mutant: the stack pointer is not switched to the target's
SwapAsm_NoStackSwitch(m, label) ==
    LET m1 == Leaq(m, label, "rax")
        m2 == Pushq(m1, "rax")
        m3 == Pushq(m2, "rbp")
        m4 == Movq(m3, "rsp", "rsi")
        m6 == Popq(m4, "rbp")
        m7 == Popq(m6, "rax")
    IN  Jmpq(m7, "rax")

\* mutant: %rdi instead of %rax holds the return address
SwapAsm_ScratchRdi(m, label) ==
    LET m1 == Leaq(m, label, "rdi")
        m2 == Pushq(m1, "rdi")
        m3 == Pushq(m2, "rbp")
        m4 == Movq(m3, "rsp", "rsi")
        m5 == Movq(m4, "rdx", "rsp")
        m6 == Popq(m5, "rbp")
        m7 == Popq(m6, "rax")
    IN  Jmpq(m7, "rax")

\* mutant: the frame pointer is pushed before the return address
SwapAsm_PushOrder(m, label) ==
    LET m1 == Leaq(m, label, "rax")
        m2 == Pushq(m1, "rbp")
        m3 == Pushq(m2, "rax")
        m4 == Movq(m3, "rsp", "rsi")
        m5 == Movq(m4, "rdx", "rsp")
        m6 == Popq(m5, "rbp")
        m7 == Popq(m6, "rax")
    IN  Jmpq(m7, "rax")

\* mutant: %rbx instead of %rax holds the return address
SwapAsm_ScratchRbx(m, label) ==
    LET m1 == Leaq(m, label, "rbx")
        m2 == Pushq(m1, "rbx")
        m3 == Pushq(m2, "rbp")
        m4 == Movq(m3, "rsp", "rsi")
        m5 == Movq(m4, "rdx", "rsp")
        m6 == Popq(m5, "rbp")
        m7 == Popq(m6, "rax")
    IN  Jmpq(m7, "rax")

(***************************************************************************)
(* The asm! block of swap: m enters with rdi = arg, rdx = new_sp; label is *)
(* the address of the local label `0:` of this (inlined) call site.        *)
(***************************************************************************)
SwapAsm(m, label) ==
    LET m1 == Leaq(m, label, "rax")
        m2 == Pushq(m1, "rax")
        m3 == Pushq(m2, "rbp")
        m4 == Movq(m3, "rsp", "rsi")
        m5 == Movq(m4, "rdx", "rsp")
        m6 == Popq(m5, "rbp")
        m7 == Popq(m6, "rax")
    IN  Jmpq(m7, "rax")

\* mutant: the input operand "{rdi}"(arg) is missing
swap_NoArg(m, arg, new_sp, label) ==
    SwapAsm(SetReg(m, "rdx", new_sp), label)

swap(m, arg, new_sp, label) ==
    SwapAsm(SetReg(SetReg(m, "rdi", arg), "rdx", new_sp), label)

\* mutant: the link is written one word too high (-24(%rcx))
SwapLinkAsm_WrongOffset(m, label) ==
    LET m1 == Leaq(m, label, "rax")
        m2 == Pushq(m1, "rax")
        m3 == Pushq(m2, "rbp")
        m4 == MovqStore(m3, "rsp", 0 - 24, "rcx")
        m5 == Movq(m4, "rsp", "rsi")
        m6 == Movq(m5, "rdx", "rsp")
        m7 == Popq(m6, "rbp")
        m8 == Popq(m7, "rax")
    IN  Jmpq(m8, "rax")

\* mutant: the stack pointer is reported before the frame pointer is pushed
SwapLinkAsm_EarlyReport(m, label) ==
    LET m1 == Leaq(m, label, "rax")
        m2 == Pushq(m1, "rax")
        m3 == Movq(m2, "rsp", "rsi")
        m4 == Pushq(m3, "rbp")
        m5 == MovqStore(m4, "rsp", 0 - 32, "rcx")
        m6 == Movq(m5, "rdx", "rsp")
        m7 == Popq(m6, "rbp")
        m8 == Popq(m7, "rax")
    IN  Jmpq(m8, "rax")

\* mutant: %rdi instead of %rax holds the return address
SwapLinkAsm_ScratchRdi(m, label) ==
    LET m1 == Leaq(m, label, "rdi")
        m2 == Pushq(m1, "rdi")
        m3 == Pushq(m2, "rbp")
        m4 == MovqStore(m3, "rsp", 0 - 32, "rcx")
        m5 == Movq(m4, "rsp", "rsi")
        m6 == Movq(m5, "rdx", "rsp")
        m7 == Popq(m6, "rbp")
        m8 == Popq(m7, "rax")
    IN  Jmpq(m8, "rax")

(***************************************************************************)
(* The asm! block of swap_link: additionally rcx = new_stack_base.         *)
(***************************************************************************)
SwapLinkAsm(m, label) ==
    LET m1 == Leaq(m, label, "rax")
        m2 == Pushq(m1, "rax")
        m3 == Pushq(m2, "rbp")
        m4 == MovqStore(m3, "rsp", 0 - 32, "rcx")
        m5 == Movq(m4, "rsp", "rsi")
        m6 == Movq(m5, "rdx", "rsp")
        m7 == Popq(m6, "rbp")
        m8 == Popq(m7, "rax")
    IN  Jmpq(m8, "rax")

\* mutant: the link is written before the frame pointer is pushed
swap_link_LinkEarly(m, arg, new_sp, new_stack_base, label) ==
    LET m0 == SetReg(SetReg(SetReg(m, "rdi", arg), "rdx", new_sp),
                     "rcx", new_stack_base)
        m1 == Leaq(m0, label, "rax")
        m2 == Pushq(m1, "rax")
        m3 == MovqStore(m2, "rsp", 0 - 32, "rcx")
        m4 == Pushq(m3, "rbp")
        m5 == Movq(m4, "rsp", "rsi")
        m6 == Movq(m5, "rdx", "rsp")
        m7 == Popq(m6, "rbp")
        m8 == Popq(m7, "rax")
    IN  Jmpq(m8, "rax")

swap_link(m, arg, new_sp, new_stack_base, label) ==
    SwapLinkAsm(SetReg(SetReg(SetReg(m, "rdi", arg), "rdx", new_sp),
                       "rcx", new_stack_base), label)

(***************************************************************************)
(* trampoline_2: the call of the entry function, and the tail executed     *)
(* when the entry function returns.                                        *)
(***************************************************************************)
\* mutant: the entry function is entered by a jump, no return address pushed
Trampoline2CallAsm_Jump(m) ==
    LET t == (m.reg.rsp + 16) % WordMod IN
    IF ~m.ok THEN m
    ELSE IF t \notin Addrs THEN Fault(m)
    ELSE [m EXCEPT !.reg.rip = m.mem[t]]

\* mutant: the call reads the slot below the entry function's
Trampoline2CallAsm_WrongSlot(m) == CallMem(m, 8, T2_AFTER_CALL)

Trampoline2CallAsm(m) == CallMem(m, 16, T2_AFTER_CALL)

\* mutant: the return address is popped before the frame pointer
Trampoline2TailAsm_PopOrder(m) ==
    LET m1 == Movq(m, "rsi", "rsp")
        m2 == Popq(m1, "rax")
        m3 == Xorq(m2, "rsi")
        m4 == Popq(m3, "rbp")
    IN  Jmpq(m4, "rax")

Trampoline2TailAsm(m) ==
    LET m1 == Movq(m, "rsi", "rsp")
        m2 == Popq(m1, "rbp")
        m3 == Xorq(m2, "rsi")
        m4 == Popq(m3, "rax")
    IN  Jmpq(m4, "rax")

\* set_ret(ret, sp): an empty asm! block with inputs rdi = ret, rsi = sp
set_ret(m, ret, sp) == SetReg(SetReg(m, "rdi", ret), "rsi", sp)


(***************************************************************************)
(* aarch64.  Registers is an array of 16 slots, the callee-saved registers *)
(* from x19 on; initialize_call_frame fills the slots bootstrap_green_task *)
(* reads and stores four words on the new stack.  A Stack is the region    *)
(* [begin, end).                                                           *)
(***************************************************************************)
NGPR == 16
Slots == 0 .. NGPR - 1

\* the slot of register xN is N - 19
X19 == 19 - 19
X20 == 20 - 19
X21 == 21 - 19
FP == 29 - 19
LR == 30 - 19
SP == 31 - 19

BOOTSTRAP_GREEN_TASK == 28672

\* the address of the Registers value itself
REGS_ADDR == StackEnd(NGen) + StackStride

\* Registers::new()
RegistersNew == [i \in Slots |-> 0]

\* the highest address not above sp that the ABI's alignment divides
align_down(sp) == sp - (sp % ABI_ALIGN)

\* pointer arithmetic on *mut usize: count words from ptr
mut_offset(ptr, count) == (ptr + count * WORD) % WordMod

\* the words of memory around a stack: the stack and the word next above it
WordsAround(stack) ==
    {a \in stack.begin .. align_down(stack.end) : a % WORD = 0}

\* *at = v.  A store outside [begin, end) is outside the allocation: it
\* either lands in the neighbouring word or ends the process (lands says which)
Store(a, stack, at, v, lands) ==
    IF ~a.ok THEN a
    ELSE IF (stack.begin <= at /\ at < stack.end) \/ (lands /\ at \in DOMAIN a.words)
    THEN [a EXCEPT !.words[at] = v, !.writes = @ \cup {at}]
    ELSE [a EXCEPT !.ok = FALSE, !.writes = @ \cup {at}]

a64_initialize_call_frame(regs, memory, fptr, arg, arg2, stack, lands) ==
    LET sp == align_down(stack.end)
        g  == [regs EXCEPT ![X19] = arg,
                           ![X20] = arg2,
                           ![X21] = fptr,
                           ![FP] = mut_offset(sp, -4),
                           ![LR] = BOOTSTRAP_GREEN_TASK,
                           ![SP] = mut_offset(sp, -4)]
        a0 == [gpr |-> g, words |-> memory, ok |-> TRUE, writes |-> {}]
        a1 == Store(a0, stack, mut_offset(sp, -0), 0, lands)
        a2 == Store(a1, stack, mut_offset(sp, -1), 0, lands)
        a3 == Store(a2, stack, mut_offset(sp, -2), 0, lands)
    IN  Store(a3, stack, mut_offset(sp, -3), 0, lands)

\* aarch64 Registers::prefetch: the addresses handed to the prefetch routine
a64_prefetch(regs) == <<REGS_ADDR, regs[1]>>

\* x86_64 Registers::prefetch
prefetch(sp) == IF sp = 0 THEN <<>> ELSE <<sp>>

(***************************************************************************)
(* State.                                                                  *)
(*   reg, mem, ok : the machine (register file, stack memory, not faulted) *)
(*   ctx          : ctx[c] is RegContext c's regs.sp; RegContext c is the  *)
(*                  one the program keeps for logical thread c (0: root)   *)
(*   local        : the local variables of the code running on each stack: *)
(*                  dst (the RegContext of the pending swap), para (the    *)
(*                  value last received), sp (the entry function's         *)
(*                  StackPointer parameter), depth (nested user calls),    *)
(*                  and pc, out, n (statement position and locals of the   *)
(*                  test scenario)                                         *)
(*   ops          : operations the program has performed                   *)
(* History variables (read by no instruction, only by properties and by    *)
(* the guards that state the caller's obligations):                        *)
(*   parked  : where each logical thread is suspended (0: running or none) *)
(*   life    : "uninit", "ready", "live" or "finished"                     *)
(*   entries : how often the entry function was invoked since init_with    *)
(*   saved   : registers of each thread just before its last switch-out    *)
(*   last    : the most recent control transfer                            *)
(*   resumer : the thread whose swap/swap_link last switched into each one *)
(*   linked  : the parent and parent frame address of the last swap_link   *)
(*             into each thread                                            *)
(*   paired  : every suspended switch was so far resumed by the context it *)
(*             had switched into                                           *)
(***************************************************************************)
VARIABLES reg, mem, ok, ctx, local, ops, parked, life, entries, saved, last,
          resumer, linked, paired,
          \* aarch64: the Registers slots, the memory around its stack, the
          \* stack, and the last operation with what it was given and found
          gpr, words, stack, call,
          \* the last prefetch: the context, its saved stack pointer, and the
          \* addresses handed to the prefetch routine
          hints

x86vars == <<reg, mem, ok, ctx, local, ops, parked, life, entries, saved, last,
             resumer, linked, paired>>

vars == <<reg, mem, ok, ctx, local, ops, parked, life, entries, saved, last,
          resumer, linked, paired, gpr, words, stack, call, hints>>

ArchUnchanged == UNCHANGED <<gpr, words, stack, call, hints>>

Machine == [reg |-> reg, mem |-> mem, ok |-> ok]

\* the running logical thread: the one whose stack holds %rsp
cur == Owner(reg.rsp)

ArgVals == {0, WordMax}
RbxVals == {0, 7}

RootSp0 == StackEnd(0) - 2 * WORD
RootBp0 == StackEnd(0) - WORD

Local0 == [dst |-> 0, para |-> 0, sp |-> 0, depth |-> 0, pc |-> 0, out |-> 0, n |-> 0]
Saved0 == [rsp |-> 0, rbp |-> 0, rbx |-> 0, rip |-> 0, clean |-> FALSE]
Linked0 == [by |-> NoThread, sp |-> 0]
Last0 == [op |-> "none", from |-> 0, to |-> 0, arg |-> 0, sp |-> 0, base |-> 0]

Reg0(f) == [rsp |-> RootSp0, rbp |-> RootBp0, rdi |-> 0, rsi |-> 0, rax |-> 0,
            rcx |-> 0, rdx |-> 0, rbx |-> 0, rip |-> Body(f)]

\* the state when function f of the native thread starts, the stacks holding
\* one of the words of fills, ops0 operations counted so far
InitX86(f, fills, ops0) ==
    /\ reg = Reg0(f)
    /\ \E fill \in fills : mem = [a \in Addrs |-> fill]
    /\ ok = TRUE
    \* RegContext::root() and RegContext::empty(): Registers { sp: 0 }
    /\ ctx = [c \in Threads |-> 0]
    /\ local = [t \in Threads |-> Local0]
    /\ ops = ops0
    /\ parked = [t \in Threads |-> 0]
    /\ life = [t \in Threads |-> IF t = 0 THEN "live" ELSE "uninit"]
    /\ entries = [t \in Threads |-> 0]
    /\ saved = [t \in Threads |-> Saved0]
    /\ last = Last0
    /\ resumer = [t \in Threads |-> NoThread]
    /\ linked = [t \in Threads |-> Linked0]
    /\ paired = TRUE

Hints0 == [of |-> NoThread, sp |-> 0, at |-> <<>>]

\* a stack ending at one of ends whose words hold one of fills, and a
\* Registers value whose slots hold one of gfills (0: Registers::new())
ArchInitAt(ends, fills, gfills) ==
    \E end \in ends, fill \in fills, g \in gfills :
        /\ stack = [begin |-> StackBegin(1), end |-> end]
        /\ words = [a \in WordsAround(stack) |-> fill]
        /\ gpr = [i \in Slots |-> g]
        /\ call = [op |-> "none", fptr |-> 0, arg |-> 0, arg2 |-> 0,
                   gpr0 |-> gpr, words0 |-> words, writes |-> {}]
        /\ hints = Hints0

InitAt(f, fills, ops0) ==
    /\ InitX86(f, fills, ops0)
    /\ ArchInitAt({StackEnd(1)}, {0}, {0})

Init == InitAt(MAIN_FN, {43690}, 0)

\* user code of function f is running
InUser(f) == ok /\ reg.rip = Body(f)

\* one more operation of the program, within the bound
Op == ops < MaxOps /\ ops' = ops + 1

SetMachine(m) == reg' = m.reg /\ mem' = m.mem /\ ok' = m.ok

\* a stack pointer at which some other logical thread can be resumed
\* the caller's obligation on a switch into RegContext dst: dst holds the stack
\* pointer at which the thread it stands for is ready or suspended
Resumable(dst) ==
    /\ dst # cur
    /\ ctx[dst] # 0
    /\ life[dst] \in {"ready", "live"}
    /\ parked[dst] = ctx[dst]

(***************************************************************************)
(* RegContext::init_with(init, stack) on RegContext c with c's Stack.      *)
(***************************************************************************)
RegContextInitWith(c, fptr) ==
    /\ LET f == initialize_call_frame(mem, fptr, c) IN
       /\ mem' = f.mem
       /\ ctx' = [ctx EXCEPT ![c] = f.sp]
    /\ life' = [life EXCEPT ![c] = "ready"]
    /\ parked' = [parked EXCEPT ![c] = StackEnd(c) - 6 * WORD]
    /\ entries' = [entries EXCEPT ![c] = 0]
    /\ UNCHANGED <<reg, ok, saved, last, resumer, linked, paired>>

InitWith(f, c, fptr) ==
    /\ ArchUnchanged
    /\ Op
    /\ InUser(f)
    /\ c # cur
    /\ life[c] = "uninit"
    /\ RegContextInitWith(c, fptr)
    /\ UNCHANGED local

\* the history of a switch-out of the running thread into thread t
SwitchOut(op, arg, t, label, base) ==
    /\ parked' = [parked EXCEPT ![cur] = (reg.rsp - 2 * WORD) % WordMod,
                                ![t] = 0]
    /\ saved' = [saved EXCEPT ![cur] = [rsp |-> reg.rsp, rbp |-> reg.rbp,
                                        rbx |-> reg.rbx, rip |-> label,
                                        clean |-> TRUE]]
    /\ last' = [op |-> op, from |-> cur, to |-> t, arg |-> arg,
                sp |-> (reg.rsp - 2 * WORD) % WordMod, base |-> base]
    /\ resumer' = [resumer EXCEPT ![t] = cur]
    /\ linked' = IF op = "swap_link" /\ base = StackEnd(t)
                 THEN [linked EXCEPT ![t] = [by |-> cur,
                                             sp |-> (reg.rsp - 2 * WORD) % WordMod]]
                 ELSE linked
    /\ paired' = (paired /\ (life[t] = "ready" \/ local[t].dst = cur))

(***************************************************************************)
(* RegContext::swap(dst, arg), up to and including the jump of the asm!    *)
(* block: restore_context (a no-op here), get_sp, swap.                    *)
(***************************************************************************)
RegContextSwap(f, dst, arg) ==
    /\ InUser(f)
    /\ Resumable(dst)
    /\ LET sp == ctx[dst] IN
       SetMachine(swap(Machine, arg, sp, SwapLabel(f)))
    /\ SwitchOut("swap", arg, dst, SwapLabel(f), 0)
    /\ UNCHANGED <<ctx, life, entries>>

(***************************************************************************)
(* RegContext::swap_link(dst, base, arg), up to and including the jump.    *)
(***************************************************************************)
RegContextSwapLink(f, dst, base, arg) ==
    /\ InUser(f)
    /\ Resumable(dst)
    /\ LET sp == ctx[dst] IN
       SetMachine(swap_link(Machine, arg, sp, base, SwapLinkLabel(f)))
    /\ SwitchOut("swap_link", arg, dst, SwapLinkLabel(f), base)
    /\ UNCHANGED <<ctx, life, entries>>

Swap(f, dst, arg) ==
    /\ ArchUnchanged
    /\ Op
    /\ RegContextSwap(f, dst, arg)
    /\ local' = [local EXCEPT ![cur].dst = dst]

SwapLink(f, dst, arg) ==
    /\ ArchUnchanged
    /\ Op
    /\ RegContextSwapLink(f, dst, StackEnd(dst), arg)
    /\ local' = [local EXCEPT ![cur].dst = dst]

\* mutant: the returned stack pointer is stored in the caller's own
\* RegContext instead of dst
SwapReturn_SetsSelf ==
    /\ ArchUnchanged
    /\ ok
    /\ reg.rip \in Labels
    /\ cur \in Threads
    /\ ctx' = [ctx EXCEPT ![cur] = reg.rsi]
    /\ local' = [local EXCEPT ![cur].para = reg.rdi]
    /\ reg' = [reg EXCEPT !.rip = Body(FuncOfLabel(reg.rip))]
    /\ UNCHANGED <<mem, ok, ops, parked, life, entries, saved, last,
                   resumer, linked, paired>>

(***************************************************************************)
(* The rest of RegContext::swap / swap_link, run when control arrives at   *)
(* the label `0:` of a suspended call: the asm! outputs ret = rdi and      *)
(* ret_sp = rsi, dst.regs.set_sp(ret_sp), and the return of ret.           *)
(***************************************************************************)
SwapReturn ==
    /\ ArchUnchanged
    /\ ok
    /\ reg.rip \in Labels
    /\ cur \in Threads
    /\ ctx' = [ctx EXCEPT ![local[cur].dst] = reg.rsi]
    /\ local' = [local EXCEPT ![cur].para = reg.rdi]
    /\ reg' = [reg EXCEPT !.rip = Body(FuncOfLabel(reg.rip))]
    /\ UNCHANGED <<mem, ok, ops, parked, life, entries, saved, last,
                   resumer, linked, paired>>

(***************************************************************************)
(* trampoline_2 from its entry point (after the nop): call *16(%rsp).      *)
(***************************************************************************)
Trampoline2Call ==
    /\ ArchUnchanged
    /\ ok
    /\ reg.rip = T2_CALL
    /\ cur \in Threads
    /\ SetMachine(Trampoline2CallAsm(Machine))
    /\ life' = [life EXCEPT ![cur] = "live"]
    /\ UNCHANGED <<ctx, local, ops, parked, entries, saved, last,
                   resumer, linked, paired>>

(***************************************************************************)
(* An entry function (InitFn) starts: unsafe fn(usize, StackPointer) takes *)
(* its parameters from rdi and rsi.                                        *)
(***************************************************************************)
EntryStart(f) ==
    /\ ArchUnchanged
    /\ ok
    /\ reg.rip = f
    /\ cur \in Threads
    /\ local' = [local EXCEPT ![cur] = [Local0 EXCEPT !.para = reg.rdi,
                                                      !.sp = reg.rsi]]
    /\ reg' = [reg EXCEPT !.rip = Body(f)]
    /\ entries' = [entries EXCEPT ![cur] = @ + 1]
    /\ UNCHANGED <<mem, ok, ctx, ops, parked, life, saved, last,
                   resumer, linked, paired>>

(***************************************************************************)
(* The entry function returns: set_ret(ret, sp) and `ret`.                 *)
(***************************************************************************)
EntryReturn(f, ret, sp) ==
    /\ ArchUnchanged
    /\ Op
    /\ InUser(f)
    /\ cur \in Gens
    /\ local[cur].depth = 0
    /\ sp # 0
    /\ \E t \in Threads \ {cur} : life[t] = "live" /\ parked[t] = sp
    /\ SetMachine(Ret(set_ret(Machine, ret, sp)))
    /\ UNCHANGED <<ctx, local, parked, life, entries, saved, last,
                   resumer, linked, paired>>

(***************************************************************************)
(* trampoline_2 after the call: the implicit final switch.                 *)
(***************************************************************************)
Trampoline2Tail ==
    /\ ArchUnchanged
    /\ ok
    /\ reg.rip = T2_AFTER_CALL
    /\ cur \in Threads
    /\ SetMachine(Trampoline2TailAsm(Machine))
    /\ life' = [life EXCEPT ![cur] = "finished"]
    /\ parked' = [t \in Threads |-> IF parked[t] = reg.rsi THEN 0 ELSE parked[t]]
    /\ last' = [op |-> "final", from |-> cur, to |-> Owner(reg.rsi),
                arg |-> reg.rdi, sp |-> 0, base |-> 0]
    /\ paired' = (paired /\ Owner(reg.rsi) \in Threads
                          /\ local[Owner(reg.rsi)].dst = cur)
    /\ UNCHANGED <<ctx, local, ops, entries, saved, resumer, linked>>

(***************************************************************************)
(* Code of the program around the library: a nested call (call; push %rbp; *)
(* mov %rsp, %rbp), its return (mov %rbp, %rsp; pop %rbp; ret), a write of  *)
(* a callee-saved register, and dst.set_sp(sp) with the entry function's   *)
(* StackPointer parameter (as the test's callback does).                   *)
(***************************************************************************)
Prologue(m) == Movq(Pushq(m, "rbp"), "rsp", "rbp")
Epilogue(m) == Ret(Popq(Movq(m, "rbp", "rsp"), "rbp"))

UserCall(f) ==
    /\ ArchUnchanged
    /\ Op
    /\ InUser(f)
    /\ local[cur].depth < MaxDepth
    /\ SetMachine([Prologue(CallTo(Machine, f, Body(f))) EXCEPT !.reg.rip = Body(f)])
    /\ local' = [local EXCEPT ![cur].depth = @ + 1]
    /\ UNCHANGED <<ctx, parked, life, entries, saved, last, resumer, linked, paired>>

UserRet(f) ==
    /\ ArchUnchanged
    /\ Op
    /\ InUser(f)
    /\ local[cur].depth > 0
    /\ SetMachine(Epilogue(Machine))
    /\ local' = [local EXCEPT ![cur].depth = @ - 1]
    /\ UNCHANGED <<ctx, parked, life, entries, saved, last, resumer, linked, paired>>

UserSetRbx(f, v) ==
    /\ ArchUnchanged
    /\ Op
    /\ InUser(f)
    /\ v # reg.rbx
    /\ reg' = [reg EXCEPT !.rbx = v]
    /\ saved' = [t \in Threads |-> [saved[t] EXCEPT !.clean = FALSE]]
    /\ UNCHANGED <<mem, ok, ctx, local, parked, life, entries, last,
                   resumer, linked, paired>>

SetSp(f, c) ==
    /\ ArchUnchanged
    /\ Op
    /\ InUser(f)
    /\ c # cur
    /\ local[cur].sp # 0
    /\ life[c] = "live"
    /\ parked[c] = local[cur].sp
    /\ ctx[c] # local[cur].sp
    /\ ctx' = [ctx EXCEPT ![c] = local[cur].sp]
    /\ UNCHANGED <<reg, mem, ok, local, parked, life, entries, saved, last,
                   resumer, linked, paired>>

\* the function whose code the running thread executes
UserFn == IF cur = 0 THEN MAIN_FN ELSE GEN_FN

\* the stack pointers the running entry function can hand to set_ret
KnownSps == {local[cur].sp} \cup {ctx[c] : c \in Threads}

Next ==
    \/ \E c \in Gens : InitWith(UserFn, c, GEN_FN)
    \/ \E dst \in Threads, arg \in ArgVals : Swap(UserFn, dst, arg)
    \/ \E dst \in Gens, arg \in ArgVals : SwapLink(UserFn, dst, arg)
    \/ SwapReturn
    \/ Trampoline2Call
    \/ EntryStart(GEN_FN)
    \/ \E sp \in KnownSps : EntryReturn(GEN_FN, 0, sp)
    \/ Trampoline2Tail
    \/ UserCall(UserFn)
    \/ UserRet(UserFn)
    \/ \E c \in Threads : SetSp(UserFn, c)

Spec == Init /\ [][Next]_vars

\* the same program, which also writes the callee-saved register %rbx
NextRegs ==
    \/ Next
    \/ \E v \in RbxVals : UserSetRbx(UserFn, v)

SpecRegs == Init /\ [][NextRegs]_vars


\* the switching operations alone (one argument value, no nested calls),
\* with a budget of MaxOps + DeepExtra operations: longer chains of switches
\* among the contexts
DeepExtra == MaxOps \div 2

InitDeep == InitAt(MAIN_FN, {43690}, 0 - DeepExtra)

NextDeep ==
    \/ \E c \in Gens : InitWith(UserFn, c, GEN_FN)
    \/ \E dst \in Threads : Swap(UserFn, dst, 0)
    \/ \E dst \in Gens : SwapLink(UserFn, dst, 0)
    \/ SwapReturn
    \/ Trampoline2Call
    \/ EntryStart(GEN_FN)
    \/ \E sp \in KnownSps : EntryReturn(GEN_FN, 0, sp)
    \/ Trampoline2Tail
    \/ \E c \in Threads : SetSp(UserFn, c)

SpecDeep == InitDeep /\ [][NextDeep]_vars


(***************************************************************************)
(* tests::test_swap_context.  local[0] holds the test function's locals    *)
(* (pc: 0 before init_with, 1 before the first swap_link, 2 driving,       *)
(* 3 after passing 0, 4 done; n: swap_link calls made; para: ret; sp: the  *)
(* saved stack pointer read at the end), local[1] those of init_fn and     *)
(* callback (pc: 0 before the first swap, 1 in the loop, 2 returned; out;  *)
(* para; sp).  pc = PANIC marks a failed assert_eq!.                       *)
(***************************************************************************)
PANIC == 99
FIRST_OUT == 42

HistoryUnchanged == UNCHANGED <<parked, life, entries, saved, last, resumer, linked, paired>>

\* ctx.init_with(init_fn, &stk)
TestInitWith ==
    /\ ArchUnchanged
    /\ InUser(TEST_FN)
    /\ local[0].pc = 0
    /\ RegContextInitWith(1, INIT_FN)
    /\ local' = [local EXCEPT ![0].pc = 1]
    /\ UNCHANGED ops

\* let ret = RegContext::swap_link(&mut ctx, stk.end(), callback as usize)
TestFirstResume ==
    /\ ArchUnchanged
    /\ local[0].pc = 1
    /\ RegContextSwapLink(TEST_FN, 1, StackEnd(1), CALLBACK_FN)
    /\ local' = [local EXCEPT ![0].dst = 1, ![0].pc = 2, ![0].n = 1]
    /\ UNCHANGED ops

\* assert_eq!(ret, 42 + resumes so far - 1);
\* let ret = RegContext::swap_link(&mut ctx, stk.end(), ret + 1)
TestResume ==
    /\ ArchUnchanged
    /\ InUser(TEST_FN)
    /\ local[0].pc = 2
    /\ local[0].n < MaxResumes
    /\ IF local[0].para = (FIRST_OUT + local[0].n - 1) % WordMod
       THEN /\ RegContextSwapLink(TEST_FN, 1, StackEnd(1), (local[0].para + 1) % WordMod)
            /\ local' = [local EXCEPT ![0].dst = 1, ![0].n = @ + 1]
       ELSE /\ local' = [local EXCEPT ![0].pc = PANIC]
            /\ UNCHANGED <<reg, mem, ok, ctx>>
            /\ HistoryUnchanged
    /\ UNCHANGED ops

\* assert_eq!(ret, ...); RegContext::swap_link(&mut ctx, stk.end(), 0)
TestFinish ==
    /\ ArchUnchanged
    /\ InUser(TEST_FN)
    /\ local[0].pc = 2
    /\ IF local[0].para = (FIRST_OUT + local[0].n - 1) % WordMod
       THEN /\ RegContextSwapLink(TEST_FN, 1, StackEnd(1), 0)
            /\ local' = [local EXCEPT ![0].dst = 1, ![0].pc = 3]
       ELSE /\ local' = [local EXCEPT ![0].pc = PANIC]
            /\ UNCHANGED <<reg, mem, ok, ctx>>
            /\ HistoryUnchanged
    /\ UNCHANGED ops

\* let sp = ctx.regs.get_sp().offset(0) as usize; assert_eq!(sp, 0)
TestReadSp ==
    /\ ArchUnchanged
    /\ InUser(TEST_FN)
    /\ local[0].pc = 3
    /\ local' = [local EXCEPT ![0].sp = ctx[1],
                              ![0].pc = IF ctx[1] = 0 THEN 4 ELSE PANIC]
    /\ UNCHANGED <<reg, mem, ok, ctx, ops>>
    /\ HistoryUnchanged

\* init_fn: let func = transmute(env); func(sp)
InitFnCall ==
    /\ ArchUnchanged
    /\ InUser(INIT_FN)
    /\ local[cur].pc = 0
    /\ SetMachine(CallTo(SetReg(Machine, "rdi", local[cur].sp),
                         local[cur].para, CallRet(INIT_FN)))
    /\ UNCHANGED <<ctx, local, ops>>
    /\ HistoryUnchanged

\* callback starts: let mut dst = RegContext::root(); let mut out = 42
CallbackStart ==
    /\ ArchUnchanged
    /\ ok
    /\ reg.rip = CALLBACK_FN
    /\ cur \in Threads
    /\ SetMachine([Prologue(Machine) EXCEPT !.reg.rip = Body(CALLBACK_FN)])
    /\ ctx' = [ctx EXCEPT ![0] = 0]
    /\ local' = [local EXCEPT ![cur].sp = reg.rdi, ![cur].out = FIRST_OUT,
                              ![cur].depth = 1, ![cur].dst = 0]
    /\ UNCHANGED ops
    /\ HistoryUnchanged

\* dst.regs.set_sp(sp); RegContext::swap(&mut dst, out), up to the jump
CallbackSetSpSwap(out) ==
    /\ local[cur].sp # 0
    /\ life[0] = "live"
    /\ parked[0] = local[cur].sp
    /\ SetMachine(swap(Machine, out, local[cur].sp, SwapLabel(CALLBACK_FN)))
    /\ ctx' = [ctx EXCEPT ![0] = local[cur].sp]
    /\ SwitchOut("swap", out, 0, SwapLabel(CALLBACK_FN), 0)
    /\ UNCHANGED <<life, entries>>

\* the first iteration of the loop
CallbackFirstSwap ==
    /\ ArchUnchanged
    /\ InUser(CALLBACK_FN)
    /\ local[cur].pc = 0
    /\ CallbackSetSpSwap(local[cur].out)
    /\ local' = [local EXCEPT ![cur].pc = 1]
    /\ UNCHANGED ops

\* para != 0: out += 1; assert_eq!(para, out); and the next iteration
CallbackNext ==
    /\ ArchUnchanged
    /\ InUser(CALLBACK_FN)
    /\ local[cur].pc = 1
    /\ local[cur].para # 0
    /\ LET out == (local[cur].out + 1) % WordMod IN
       IF local[cur].para = out
       THEN /\ CallbackSetSpSwap(out)
            /\ local' = [local EXCEPT ![cur].out = out]
       ELSE /\ local' = [local EXCEPT ![cur].out = out, ![cur].pc = PANIC]
            /\ UNCHANGED <<reg, mem, ok, ctx>>
            /\ HistoryUnchanged
    /\ UNCHANGED ops

\* para == 0: return
CallbackReturn ==
    /\ ArchUnchanged
    /\ InUser(CALLBACK_FN)
    /\ local[cur].pc = 1
    /\ local[cur].para = 0
    /\ SetMachine(Epilogue(Machine))
    /\ local' = [local EXCEPT ![cur].pc = 2, ![cur].depth = 0]
    /\ UNCHANGED <<ctx, ops>>
    /\ HistoryUnchanged

\* init_fn returns to trampoline_2; no statement of init_fn or callback
\* writes %rdi or %rsi after the swap's outputs were taken
InitFnReturn ==
    /\ ArchUnchanged
    /\ ok
    /\ reg.rip = CallRet(INIT_FN)
    /\ cur \in Threads
    /\ SetMachine(Ret(Machine))
    /\ UNCHANGED <<ctx, local, ops>>
    /\ HistoryUnchanged

InitTest == InitAt(TEST_FN, {0, 43690}, 0)

NextTest ==
    \/ TestInitWith
    \/ TestFirstResume
    \/ TestResume
    \/ TestFinish
    \/ TestReadSp
    \/ SwapReturn
    \/ Trampoline2Call
    \/ EntryStart(INIT_FN)
    \/ InitFnCall
    \/ CallbackStart
    \/ CallbackFirstSwap
    \/ CallbackNext
    \/ CallbackReturn
    \/ InitFnReturn
    \/ Trampoline2Tail

SpecTest == InitTest /\ [][NextTest]_vars

(***************************************************************************)
(* Properties.                                                             *)
(***************************************************************************)
\* the running thread executes user code of the function it runs
Running == ok /\ cur \in Threads /\ reg.rip = Body(UserFn)
\* control has just arrived at the label `0:` of a suspended switch
AtLabel == ok /\ cur \in Threads /\ reg.rip \in Labels
\* the link (CFA) slot of stack s
CfaSlot(s) == StackEnd(s) - 4 * WORD

\* C1: in test_swap_context with any number of resumes, the k-th swap_link
\* returns 42 + (k - 1), no assertion of the test or of the callback fails,
\* the callback's counter follows the creator's values, and when the test is
\* done the context's saved stack pointer is 0.
C1_TestScenario ==
    /\ \A t \in Threads : local[t].pc # PANIC
    /\ ok
    /\ (InUser(TEST_FN) /\ local[0].pc = 2) =>
          local[0].para = (FIRST_OUT + local[0].n - 1) % WordMod
    /\ (InUser(CALLBACK_FN) /\ local[1].pc = 1 /\ local[1].para # 0) =>
          local[1].para = (local[1].out + 1) % WordMod
    /\ (InUser(TEST_FN) /\ local[0].pc = 3) => (ctx[1] = 0 /\ life[1] = "finished")
    /\ local[0].pc = 4 => (local[0].sp = 0 /\ ctx[1] = 0)

\* C1 witness: the run of the source's test: returns 42, 43, 44, then 0 passed
\* and the saved stack pointer read as 0
C1_Witness ==
    /\ local[0].pc = 4
    /\ local[0].n = 3
    /\ local[1].out = FIRST_OUT + 2
    /\ local[0].sp = 0
    /\ ctx[1] = 0

\* C2: the value passed to swap or swap_link is what the resumed side
\* observes: the first argument register when its entry function starts, the
\* parameter the entry function binds, and the value its pending
\* swap/swap_link returns.
C2_ArgumentFidelity ==
    (ok /\ last.op \in {"swap", "swap_link"}) =>
        /\ cur = last.to
        /\ (reg.rip \in {T2_CALL, GEN_FN} \cup Labels => reg.rdi = last.arg)
        /\ (Running => local[cur].para = last.arg)

\* C2 witness: a pending swap returned the all-bits-set word
C2_Witness ==
    /\ Running
    /\ last.op = "swap"
    /\ last.arg = WordMax
    /\ saved[cur].rip = SwapLabel(UserFn)
    /\ local[cur].para = WordMax

\* C3: a context whose entry function returned without ever switching, after
\* the one swap_link into it has returned to its caller, has its RegContext's
\* saved stack pointer equal to 0.
C3_FinishedSentinel ==
    \A c \in Gens :
        ( /\ Running
          /\ last.op = "final" /\ last.from = c
          /\ saved[c] = Saved0
          /\ local[cur].dst = c
          /\ resumer[c] = cur
          /\ saved[cur].rip = SwapLinkLabel(UserFn) )
        => (ctx[c] = 0 /\ life[c] = "finished" /\ entries[c] = 1)

C3_Witness ==
    \E c \in Gens :
        /\ Running
        /\ last.op = "final" /\ last.from = c
        /\ saved[c] = Saved0
        /\ local[cur].dst = c
        /\ resumer[c] = cur
        /\ saved[cur].rip = SwapLinkLabel(UserFn)
        /\ ctx[c] = 0

\* the registers of thread p are those it had just before it switched out,
\* and control is at the label after its switch
ResumedInPlace(r, p) ==
    /\ Owner(r.rsp) = p
    /\ r.rip = saved[p].rip
    /\ r.rsp = saved[p].rsp
    /\ r.rbp = saved[p].rbp

\* C4 as claimed: when the entry function of the running context returns,
\* trampoline_2's tail resumes the context whose swap/swap_link most recently
\* switched into it, whatever the entry function left in the registers.
C4_FinalSwitchToResumer ==
    [][(ok /\ reg.rip = T2_AFTER_CALL) =>
          (ok' /\ ResumedInPlace(reg', resumer[cur]) /\ reg'.rsi = 0)]_vars

\* C4 as amended: trampoline_2's tail resumes the context parked at the
\* stack pointer the entry function left in %rsi (what set_ret installs): its
\* stack pointer is %rsi plus the two words popped, its frame pointer and
\* return address are the two words its switch pushed there, %rsi is 0
\* and %rdi is passed through.
C4_FinalSwitchToRsi ==
    [][(ok /\ reg.rip = T2_AFTER_CALL) =>
          LET p == Owner(reg.rsi) IN
          (p \in Threads /\ life[p] = "live" /\ parked[p] = reg.rsi) =>
              /\ ok'
              /\ ResumedInPlace(reg', p)
              /\ reg'.rsp = (reg.rsi + 2 * WORD) % WordMod
              /\ reg'.rsi = 0
              /\ reg'.rdi = reg.rdi]_vars

\* C4 witness: the final switch has resumed a context other than the one that
\* most recently switched into the finished one
C4_Witness ==
    /\ AtLabel
    /\ last.op = "final"
    /\ cur = last.to
    /\ reg.rsi = 0
    /\ resumer[last.from] # cur

\* C5: whenever control passes to a context that had suspended itself in
\* swap or swap_link, it continues at the label after its own switch with the
\* stack pointer and frame pointer it had just before switching out.
C5_ResumeInPlace ==
    [][(ok /\ ok' /\ Owner(reg'.rsp) # cur /\ Owner(reg'.rsp) \in Threads
           /\ life[Owner(reg'.rsp)] = "live") =>
          /\ reg'.rip \in Labels
          /\ ResumedInPlace(reg', Owner(reg'.rsp))]_vars

\* C5 witness: a generator resumed inside a nested call frame
C5_Witness ==
    /\ AtLabel
    /\ cur \in Gens
    /\ local[cur].depth >= 1
    /\ last.op \in {"swap", "swap_link"}
    /\ ResumedInPlace(reg, cur)


\* the stack pointer init_with installs: the address of the stage-2 frame
ReadySp(c) == StackEnd(c) - 6 * WORD

\* a step that is a direct RegContext::set_sp call, not a switch
SetSpStep == ctx' # ctx /\ reg' = reg /\ life' = life

\* C6 as claimed: apart from direct set_sp calls, the saved stack pointer of
\* a generator's RegContext leaves 0 only by init_with (to the stage-2
\* frame), then changes only to addresses inside its own live stack, returns
\* to 0 only by the final jump of its own entry function's return, and stays
\* 0 once finished.
C6_StateMachineOwnStack ==
    [][~SetSpStep => \A c \in Gens :
          /\ (ctx[c] = 0 /\ ctx'[c] # 0) =>
                (life[c] = "uninit" /\ life'[c] = "ready" /\ ctx'[c] = ReadySp(c))
          /\ (ctx[c] # 0 /\ ctx'[c] # 0 /\ ctx'[c] # ctx[c]) =>
                (life[c] = "live" /\ InStack(c, ctx'[c]))
          /\ (ctx[c] # 0 /\ ctx'[c] = 0) =>
                (last.op = "final" /\ last.from = c /\ life[c] = "finished")
          /\ (life[c] = "finished" /\ ctx[c] = 0) => ctx'[c] = 0]_vars

\* C6 as amended: apart from direct set_sp calls, the saved stack pointer of
\* a generator's RegContext changes only by init_with, from 0 to the address
\* of the stage-2 frame (whose return-address word is trampoline_2 + 1), or
\* when a switch that named it as dst returns, to the stack pointer reported
\* by the context that switched back: that context's parked stack pointer
\* after a swap or swap_link, 0 after a final jump.  As long as every
\* suspended switch was resumed by the context it had switched into, the
\* context that switched back is the RegContext's own: the new value is an
\* address in its own live stack, or 0 by the final jump of its own entry
\* function, after which it changes no more.
C6_StateMachine ==
    [][~SetSpStep => \A c \in Gens : ctx'[c] # ctx[c] =>
          \/ /\ ctx[c] = 0
             /\ life[c] = "uninit" /\ life'[c] = "ready"
             /\ ctx'[c] = ReadySp(c)
             /\ mem'[ctx'[c] + WORD] = T2_CALL
          \/ /\ reg.rip \in Labels
             /\ local[cur].dst = c
             /\ ctx'[c] = reg.rsi
             /\ \/ /\ last.op \in {"swap", "swap_link"}
                   /\ ctx'[c] = parked[last.from]
                   /\ InStack(last.from, ctx'[c])
                   /\ paired => (last.from = c /\ life[c] = "live")
                \/ /\ last.op = "final"
                   /\ ctx'[c] = 0
                   /\ paired => (last.from = c /\ life[c] = "finished")]_vars

\* C6 witness: a context went through all four stages (it was suspended in a
\* switch of its own, and is finished with saved stack pointer 0)
C6_Witness ==
    \E c \in Gens :
        /\ life[c] = "finished"
        /\ ctx[c] = 0
        /\ saved[c].rip # 0
        /\ Running

\* C7: the entry function runs exactly once per context: the first switch
\* into a ready context lands on trampoline_2, whose call starts the entry
\* function on the stack holding only the synthetic frame, with the switch's
\* argument in %rdi and the resumer's parked stack pointer in %rsi; every
\* later switch into the context resumes it without starting entry again.
C7_EntryOnce ==
    /\ \A c \in Gens :
          /\ entries[c] <= 1
          /\ (life[c] \in {"uninit", "ready"} => entries[c] = 0)
          /\ (life[c] = "finished" => entries[c] = 1)
          /\ ((life[c] = "live" /\ c # cur) => entries[c] = 1)
    /\ (ok /\ cur \in Gens) =>
          /\ (reg.rip = T2_CALL =>
                 (life[cur] = "ready" /\ entries[cur] = 0 /\ reg.rsp = CfaSlot(cur)))
          /\ (reg.rip = GEN_FN =>
                 /\ entries[cur] = 0
                 /\ last.op \in {"swap", "swap_link"}
                 /\ last.to = cur
                 /\ reg.rdi = last.arg
                 /\ reg.rsi = parked[last.from]
                 /\ reg.rsp = StackEnd(cur) - 5 * WORD
                 /\ mem[reg.rsp] = T2_AFTER_CALL)
          /\ (reg.rip \notin {T2_CALL, GEN_FN} => entries[cur] = 1)
    /\ (Running /\ cur \in Gens /\ saved[cur] = Saved0) =>
          (local[cur].para = last.arg /\ local[cur].sp = parked[last.from])

\* C7 witness: a context that had suspended itself was switched into again and
\* runs on, its entry function having been started once
C7_Witness ==
    /\ Running
    /\ cur \in Gens
    /\ saved[cur].rip # 0
    /\ last.op = "swap_link"
    /\ last.to = cur
    /\ entries[cur] = 1

\* the frame-pointer chain from fp up to the link slot of stack s
RECURSIVE WalkToSlot(_, _, _)
WalkToSlot(fp, s, n) ==
    IF fp = CfaSlot(s) THEN fp
    ELSE IF n = 0 \/ fp \notin Addrs THEN 0
    ELSE WalkToSlot(mem[fp], s, n - 1)

\* C8: for every started context C last linked by swap_link with
\* stack_bottom = C's stack end, C's link slot holds the address on the
\* parent's stack where that switch pushed the parent's frame pointer and
\* return address; while the parent is parked there those two words are the
\* parent's frame pointer and the label after its switch; the frame
\* pointer of the running context leads to its link slot, and the parent's
\* saved frame pointer leads to the parent's own link slot.
C8_ChainIntegrity ==
    \A c \in Gens :
        (life[c] = "live" /\ linked[c].by # NoThread) =>
            LET p == linked[c].by
                a == linked[c].sp IN
            /\ mem[CfaSlot(c)] = a
            /\ Owner(a) = p
            /\ (parked[p] = a =>
                   /\ a = (saved[p].rsp - 2 * WORD) % WordMod
                   /\ mem[a] = saved[p].rbp
                   /\ mem[a + WORD] = saved[p].rip
                   /\ saved[p].rip \in Labels
                   /\ (p \in Gens => WalkToSlot(mem[a], p, MaxDepth + 1) = CfaSlot(p)))
            /\ ((Running /\ cur = c) =>
                   WalkToSlot(reg.rbp, c, MaxDepth + 1) = CfaSlot(c))

\* C8 witness: two levels of nesting (root linked a context, which linked a
\* child from inside a nested call), the child running, both parents parked
C8_Witness ==
    \E b, c \in Gens :
        /\ b # c
        /\ Running /\ cur = c
        /\ life[b] = "live" /\ life[c] = "live"
        /\ linked[b].by = 0 /\ parked[0] = linked[b].sp
        /\ linked[c].by = b /\ parked[b] = linked[c].sp
        /\ local[b].depth >= 1
        /\ mem[CfaSlot(c)] = parked[b]
        /\ mem[CfaSlot(b)] = parked[0]

\* C9 as claimed: every RegContext's saved stack pointer is 0 or an address
\* inside the stack of the thread the RegContext stands for.
C9_SavedSpInOwnStack ==
    \A c \in Threads : ctx[c] = 0 \/ InStack(c, ctx[c])

\* C9 as amended: every RegContext's saved stack pointer is 0 or an address
\* inside exactly one stack; that stack is the one of the thread the
\* RegContext stands for as long as every suspended switch was resumed by the
\* context it had switched into.
C9_SavedSpInOneStack ==
    \A c \in Threads :
        \/ ctx[c] = 0
        \/ /\ Cardinality({s \in Threads : InStack(s, ctx[c])}) = 1
           /\ paired => InStack(c, ctx[c])

\* C9 witness: a RegContext holds a stack pointer inside another thread's
\* stack
C9_Witness ==
    \E c \in Threads : ctx[c] # 0 /\ ~InStack(c, ctx[c]) /\ Owner(ctx[c]) \in Threads


\* C10: a context resumed after any number of switches finds its frame
\* pointer as it was just before it switched out, and %rbx (standing for the
\* callee-saved registers the switch does not use) too when no code that ran
\* in between wrote it.
C10_RegisterPreservation ==
    AtLabel =>
        /\ reg.rbp = saved[cur].rbp
        /\ (saved[cur].clean => reg.rbx = saved[cur].rbx)

\* C10 witness: a context resumed after a round trip of at least two switches
\* through a peer, with non-zero %rbx preserved
C10_Witness ==
    /\ AtLabel
    /\ saved[cur].clean
    /\ reg.rbx # 0
    /\ reg.rbx = saved[cur].rbx
    /\ reg.rbp = saved[cur].rbp
    /\ last.op \in {"swap", "swap_link"}
    /\ saved[last.from].rip # 0


\* every context other than the running one is unstarted, finished, or
\* suspended at a switch: parked on its own stack at the two words its switch
\* pushed, the upper one the label after that switch
OthersParked ==
    \A t \in Threads \ {cur} :
        \/ life[t] \in {"uninit", "ready", "finished"}
        \/ /\ life[t] = "live"
           /\ parked[t] # 0
           /\ InStack(t, parked[t])
           /\ saved[t].rip \in Labels
           /\ mem[parked[t] + WORD] = saved[t].rip

\* exactly one logical thread runs: the one whose stack %rsp points into
OneRunning ==
    /\ ok
    /\ cur \in Threads
    /\ parked[cur] = 0
    /\ life[cur] \in {"ready", "live"}
    /\ (life[cur] = "ready" <=> reg.rip = T2_CALL)
    /\ OthersParked

\* the running context changes only in a swap/swap_link call made by user
\* code, to the context the call names, or in trampoline_2's tail after the
\* entry function returned, to the context `final` names
TransfersTo(final) ==
    /\ (cur' # cur) =>
          \/ /\ InUser(UserFn)
             /\ last'.op \in {"swap", "swap_link"}
             /\ last'.from = cur
             /\ cur' = local'[cur].dst
          \/ /\ reg.rip = T2_AFTER_CALL
             /\ last'.op = "final"
             /\ last'.from = cur
             /\ cur' = final
    /\ (last' # last) => (cur' # cur /\ cur' = last'.to)

\* C11 as claimed: exactly one logical thread is running and every other
\* context is unstarted, suspended at a switch or finished; the running
\* context changes only at a swap/swap_link call, which makes the targeted
\* context the running one, or at an entry function's return, which makes the
\* parent (the context that most recently switched into it) the running one.
C11_SingleRunningParent ==
    [][OneRunning' /\ TransfersTo(resumer[cur])]_vars

\* C11 as amended: the same, except that an entry function's return makes the
\* context parked at the stack pointer left in %rsi the running one.
C11_SingleRunning ==
    [][OneRunning' /\ TransfersTo(Owner(reg.rsi))]_vars

\* C11 witness: an entry function's return made a context other than the
\* parent the running one, while the parent stays suspended at its switch
C11_Witness ==
    /\ OneRunning
    /\ last.op = "final"
    /\ cur = last.to
    /\ resumer[last.from] # cur
    /\ life[resumer[last.from]] = "live"
    /\ parked[resumer[last.from]] # 0



(***************************************************************************)
(* Ping-pong over plain switches: the scenario of test_swap_context with   *)
(* the creator calling RegContext::swap where the test calls swap_link.    *)
(* The callback is the test's; the creator passes ret + 1 each time and    *)
(* may pass 0 at any round to end the exchange.                            *)
(***************************************************************************)
\* let ret = RegContext::swap(&mut ctx, callback as usize)
PingFirst ==
    /\ ArchUnchanged
    /\ local[0].pc = 1
    /\ RegContextSwap(TEST_FN, 1, CALLBACK_FN)
    /\ local' = [local EXCEPT ![0].dst = 1, ![0].pc = 2, ![0].n = 1]
    /\ UNCHANGED ops

\* assert_eq!(ret, 42 + rounds so far - 1);
\* let ret = RegContext::swap(&mut ctx, ret + 1)
PingNext ==
    /\ ArchUnchanged
    /\ InUser(TEST_FN)
    /\ local[0].pc = 2
    /\ local[0].n < MaxResumes
    /\ IF local[0].para = (FIRST_OUT + local[0].n - 1) % WordMod
       THEN /\ RegContextSwap(TEST_FN, 1, (local[0].para + 1) % WordMod)
            /\ local' = [local EXCEPT ![0].dst = 1, ![0].n = @ + 1]
       ELSE /\ local' = [local EXCEPT ![0].pc = PANIC]
            /\ UNCHANGED <<reg, mem, ok, ctx>>
            /\ HistoryUnchanged
    /\ UNCHANGED ops

\* RegContext::swap(&mut ctx, 0)
PingFinish ==
    /\ ArchUnchanged
    /\ InUser(TEST_FN)
    /\ local[0].pc = 2
    /\ RegContextSwap(TEST_FN, 1, 0)
    /\ local' = [local EXCEPT ![0].dst = 1, ![0].pc = 3]
    /\ UNCHANGED ops

NextPing ==
    \/ TestInitWith
    \/ PingFirst
    \/ PingNext
    \/ PingFinish
    \/ TestReadSp
    \/ SwapReturn
    \/ Trampoline2Call
    \/ EntryStart(INIT_FN)
    \/ InitFnCall
    \/ CallbackStart
    \/ CallbackFirstSwap
    \/ CallbackNext
    \/ CallbackReturn
    \/ InitFnReturn
    \/ Trampoline2Tail

SpecPing == InitTest /\ [][NextPing]_vars

\* C12: in the ping-pong over plain swap calls, whatever the stacks held at
\* the start and whenever the exchange is ended, the value each side observes
\* at its k-th return is a function of k alone (42 + k - 1 for the creator,
\* 42 + k for the callback), so two runs observe the same sequence; it is the
\* value the other side last passed, and no assertion of the protocol fails.
C12_PingPongDeterminism ==
    /\ ok
    /\ \A t \in Threads : local[t].pc # PANIC
    /\ (InUser(TEST_FN) /\ local[0].pc = 2) =>
          /\ local[0].para = (FIRST_OUT + local[0].n - 1) % WordMod
          /\ local[0].para = local[1].out
          /\ last.op = "swap" /\ last.from = 1 /\ last.arg = local[0].para
    /\ (InUser(CALLBACK_FN) /\ local[1].pc = 1 /\ local[0].pc = 2) =>
          /\ local[1].para = (FIRST_OUT + local[0].n - 1) % WordMod
          /\ local[1].para = (local[0].para + 1) % WordMod
          /\ last.op = "swap" /\ last.from = 0 /\ last.arg = local[1].para
    /\ (InUser(CALLBACK_FN) /\ local[1].pc = 1 /\ local[0].pc = 3) =>
          local[1].para = 0
    /\ \A t \in Threads : linked[t] = Linked0

\* C12 witness: the creator's third plain swap has returned 44, the callback
\* having received 43 and 44
C12_Witness ==
    /\ InUser(TEST_FN)
    /\ local[0].pc = 2
    /\ local[0].n = 3
    /\ local[0].para = FIRST_OUT + 2
    /\ local[1].para = FIRST_OUT + 2
    /\ local[1].out = FIRST_OUT + 2
    /\ last.op = "swap"



\* the step is a swap_link call of the running context into context t
SwapLinkStep(t) ==
    /\ InUser(UserFn)
    /\ last' # last
    /\ last'.op = "swap_link"
    /\ last'.from = cur
    /\ last'.to = t

\* C13: init_with puts the CFA placeholder 4 words below the stack end and
\* makes the word at the saved stack pointer (the first frame pointer popped)
\* point at it; swap_link with stack_bottom = the target's stack end writes
\* the caller's stack pointer after its two pushes to exactly that word and
\* changes no other word of the target's stack; a fresh context's frame
\* pointer after the first switch points at that word.
C13_LinkSlot ==
    [][/\ \A c \in Gens :
             (life[c] = "uninit" /\ life'[c] = "ready") =>
                 /\ mem'[CfaSlot(c)] = CFA_POISON
                 /\ ctx'[c] + 2 * WORD = CfaSlot(c)
                 /\ mem'[ctx'[c]] = CfaSlot(c)
       /\ \A t \in Gens :
             SwapLinkStep(t) =>
                 /\ last'.base = StackEnd(t)
                 /\ mem'[CfaSlot(t)] = (reg.rsp - 2 * WORD) % WordMod
                 /\ mem'[CfaSlot(t)] = reg'.rsi
                 /\ \A a \in Addrs :
                       (InStack(t, a) /\ a # CfaSlot(t)) => mem'[a] = mem[a]
                 /\ \A a \in Addrs :
                       mem'[a] # mem[a] =>
                           \/ a = CfaSlot(t)
                           \/ a = (reg.rsp - WORD) % WordMod
                           \/ a = (reg.rsp - 2 * WORD) % WordMod
       /\ (reg'.rip = T2_CALL /\ reg.rip # T2_CALL) =>
             /\ reg'.rbp = CfaSlot(cur')
             /\ (last'.op = "swap_link" => mem'[reg'.rbp] = parked'[last'.from])
      ]_vars

\* C13 witness: the first switch into a fresh context was a swap_link; its
\* frame pointer points at the link slot, which no longer holds the
\* placeholder but the caller's parked stack pointer
C13_Witness ==
    /\ ok
    /\ reg.rip = T2_CALL
    /\ last.op = "swap_link"
    /\ reg.rbp = CfaSlot(cur)
    /\ mem[CfaSlot(cur)] = last.sp
    /\ mem[CfaSlot(cur)] # CFA_POISON
    /\ InStack(last.from, last.sp)



\* C14: while a context initialised by init_with has not been switched into,
\* its saved stack pointer is its stack end minus 6 words and the six words
\* below the stack end hold, from the top: 0, the entry function, trampoline_1
\* + 2, the CFA placeholder, trampoline_2 + 1, and the address of the CFA
\* slot; the first switch pops that address as frame pointer and lands on
\* trampoline_2 + 1 with the entry function 16 bytes above the stack pointer.
C14_InitialFrame ==
    /\ \A c \in Gens :
          (life[c] = "ready" /\ c # cur) =>
              /\ ctx[c] = StackEnd(c) - 6 * WORD
              /\ mem[StackEnd(c) - 1 * WORD] = 0
              /\ mem[StackEnd(c) - 2 * WORD] = GEN_FN
              /\ mem[StackEnd(c) - 3 * WORD] = TRAMPOLINE_1 + 2
              /\ mem[StackEnd(c) - 4 * WORD] = CFA_POISON
              /\ mem[StackEnd(c) - 5 * WORD] = TRAMPOLINE_2 + 1
              /\ mem[StackEnd(c) - 6 * WORD] = StackEnd(c) - 4 * WORD
    /\ (ok /\ reg.rip = TRAMPOLINE_2 + 1) =>
          /\ life[cur] = "ready"
          /\ reg.rbp = StackEnd(cur) - 4 * WORD
          /\ reg.rsp = StackEnd(cur) - 4 * WORD
          /\ mem[reg.rsp + 16] = GEN_FN
          /\ mem[reg.rsp + 8] = TRAMPOLINE_1 + 2
          /\ mem[reg.rsp + 24] = 0

\* C14 witness: a plain swap entered a fresh context: control is at
\* trampoline_2 + 1, the placeholder still in the CFA slot, while another
\* context is initialised and not yet entered
C14_Witness ==
    /\ ok
    /\ reg.rip = TRAMPOLINE_2 + 1
    /\ last.op = "swap"
    /\ mem[reg.rsp + 16] = GEN_FN
    /\ mem[reg.rsp] = CFA_POISON
    /\ \E c \in Gens : c # cur /\ life[c] = "ready" /\ ctx[c] = StackEnd(c) - 6 * WORD



\* the machine after swap, and after swap_link with stack_bottom = the
\* target's stack end, called by the running context at the same call site
\* with the same argument and target
AfterSwap(dst, arg) == swap(Machine, arg, ctx[dst], SwapLabel(UserFn))
AfterSwapLink(dst, arg) ==
    swap_link(Machine, arg, ctx[dst], StackEnd(dst), SwapLabel(UserFn))

\* C17: from every state where user code can switch, swap and swap_link with
\* the same argument and target agree on the running context (stack pointer,
\* frame pointer, address jumped to), the argument passed, the stack pointer
\* handed to the peer, and every word of memory except the target's link
\* slot (so on the two words pushed on the caller's stack); swap_link has
\* written the handed stack pointer into the target's link slot, swap has
\* left every link slot unchanged; and whichever of the two was pending, its
\* return stores the reported stack pointer into the target's RegContext.
C17_SwapVsSwapLink ==
    [][/\ Running =>
             \A dst \in Gens, arg \in ArgVals :
                 Resumable(dst) =>
                     LET a == AfterSwap(dst, arg)
                         b == AfterSwapLink(dst, arg) IN
                     /\ a.ok /\ b.ok
                     /\ \A r \in {"rsp", "rbp", "rip", "rdi", "rsi", "rbx", "rax", "rdx"} :
                           a.reg[r] = b.reg[r]
                     /\ Owner(a.reg.rsp) = dst
                     /\ a.reg.rdi = arg
                     /\ a.reg.rsi = (reg.rsp - 2 * WORD) % WordMod
                     /\ a.mem[a.reg.rsi] = reg.rbp
                     /\ a.mem[a.reg.rsi + WORD] = SwapLabel(UserFn)
                     /\ \A x \in Addrs : x # CfaSlot(dst) => a.mem[x] = b.mem[x]
                     /\ b.mem[CfaSlot(dst)] = b.reg.rsi
                     /\ \A c \in Gens : a.mem[CfaSlot(c)] = mem[CfaSlot(c)]
       /\ AtLabel =>
             /\ ctx'[local[cur].dst] = reg.rsi
             /\ local'[cur].para = reg.rdi
      ]_vars

\* C17 witness: user code can re-enter a suspended context whose link slot
\* holds another value than swap_link would write, so that the two switches
\* lead to different memories; both kinds of switch have been returned from
C17_Witness ==
    /\ Running
    /\ \E dst \in Gens :
          /\ Resumable(dst)
          /\ life[dst] = "live"
          /\ AfterSwap(dst, 0).mem # AfterSwapLink(dst, 0).mem
          /\ AfterSwap(dst, 0).reg.rsp = AfterSwapLink(dst, 0).reg.rsp
    /\ linked[1].by # NoThread
    /\ last.op = "swap"


(***************************************************************************)
(* C18  Stack alignment at entry: when stack.end() is 16-byte aligned, at  *)
(* the moment the entry function starts executing, right after             *)
(* trampoline_2's call pushed its return address, the stack pointer plus 8 *)
(* is a multiple of 16 (the x86_64 SysV rule at function entry), and the   *)
(* word at the stack pointer is that return address.                       *)
(***************************************************************************)
AtEntry == ok /\ cur \in Threads /\ reg.rip \in {GEN_FN, INIT_FN}

C18_EntryAlignment ==
    (AtEntry /\ StackEnd(cur) % ABI_ALIGN = 0) =>
        /\ (reg.rsp + WORD) % ABI_ALIGN = 0
        /\ reg.rsp % ABI_ALIGN = WORD
        /\ mem[reg.rsp] = T2_AFTER_CALL
        /\ InStack(cur, reg.rsp)

C18_Witness ==
    /\ AtEntry
    /\ StackEnd(cur) % ABI_ALIGN = 0
    /\ reg.rsp = StackEnd(cur) - 5 * WORD
    /\ last.op = "swap_link"


(***************************************************************************)
(* aarch64 frame initialisation and prefetch as a program of their own:    *)
(* a stack whose end is or is not a multiple of the ABI alignment, holding *)
(* zeros or a pattern, and a Registers value that is fresh or was saved    *)
(* into before.                                                            *)
(***************************************************************************)
A64Arg2Vals == {0, stack.begin, mut_offset(align_down(stack.end), -4)}

A64InitializeCallFrame(fptr, arg, arg2, lands) ==
    /\ call.op # "fault"
    /\ LET a == a64_initialize_call_frame(gpr, words, fptr, arg, arg2,
                                          stack, lands) IN
       /\ gpr' = a.gpr
       /\ words' = a.words
       /\ call' = [op |-> IF a.ok THEN "initialize_call_frame" ELSE "fault",
                   fptr |-> fptr, arg |-> arg, arg2 |-> arg2,
                   gpr0 |-> gpr, words0 |-> words, writes |-> a.writes]
    /\ UNCHANGED <<stack, hints>>
    /\ UNCHANGED x86vars

A64Prefetch ==
    /\ call.op # "fault"
    /\ hints' = [of |-> 0, sp |-> gpr[SP], at |-> a64_prefetch(gpr)]
    /\ call' = [call EXCEPT !.op = "prefetch", !.gpr0 = gpr,
                            !.words0 = words, !.writes = {}]
    /\ UNCHANGED <<gpr, words, stack>>
    /\ UNCHANGED x86vars

InitA64 ==
    /\ InitX86(MAIN_FN, {43690}, 0)
    /\ ArchInitAt({StackEnd(1), StackEnd(1) - WORD}, {0, 43690}, {0, 21845})

NextA64 ==
    \/ \E arg \in ArgVals, arg2 \in A64Arg2Vals, lands \in BOOLEAN :
           A64InitializeCallFrame(GEN_FN, arg, arg2, lands)
    \/ A64Prefetch

SpecA64 == InitA64 /\ [][NextA64]_vars

(***************************************************************************)
(* C15  Initial register record (array-of-slots architecture): after       *)
(* initialize_call_frame(regs, fptr, arg, arg2, stack) the x19, x20 and    *)
(* x21 slots hold arg, arg2 and fptr, the frame-pointer and stack-pointer  *)
(* slots both hold the address four words below the aligned stack top, the *)
(* link-register slot holds the bootstrap routine, every other slot is     *)
(* unchanged, and the four reserved words between that address and the     *)
(* stack top are zero whatever the stack held before.                      *)
(***************************************************************************)
A64Top == align_down(stack.end)

\* the slots of the record, as the claim states them
C15_RegisterSlots ==
    call.op = "initialize_call_frame" =>
        /\ gpr[X19] = call.arg
        /\ gpr[X20] = call.arg2
        /\ gpr[X21] = call.fptr
        /\ gpr[FP] = A64Top - 4 * WORD
        /\ gpr[SP] = A64Top - 4 * WORD
        /\ gpr[LR] = BOOTSTRAP_GREEN_TASK
        /\ \A i \in Slots \ {X19, X20, X21, FP, LR, SP} : gpr[i] = call.gpr0[i]

\* the whole claim: the slots, and zeros in the four words of
\* [top - 4 words, top)
C15_InitialRegisterRecord ==
    /\ C15_RegisterSlots
    /\ call.op = "initialize_call_frame" =>
           \A k \in 1 .. 4 : words[A64Top - k * WORD] = 0

\* what the stores leave instead: zeros in the four words of
\* (top - 4 words, top], the word at the installed stack pointer as it was
C15_ZeroedWords ==
    call.op = "initialize_call_frame" =>
        /\ \A k \in 0 .. 3 : words[A64Top - k * WORD] = 0
        /\ words[gpr[SP]] = call.words0[gpr[SP]]
        /\ \A a \in DOMAIN words :
               a < gpr[SP] => words[a] = call.words0[a]


(***************************************************************************)
(* C16  Frame initialisation stays inside the stack: every word written by *)
(* the frame initializer lies at an address a with begin <= a < end, and   *)
(* none lies below the saved stack pointer it installs.                    *)
(***************************************************************************)
\* x86_64: the six pushes of init_with, seen as the words of memory the step
\* changes (the stack held a pattern none of the pushed values equals)
C16_FrameInsideStackX86 ==
    [][\A c \in Gens :
          (life[c] = "uninit" /\ life'[c] = "ready") =>
              LET written == {a \in Addrs : mem'[a] # mem[a]} IN
              /\ Cardinality(written) = 6
              /\ \A a \in written :
                    /\ StackBegin(c) <= a
                    /\ a < StackEnd(c)
                    /\ a >= ctx'[c]
      ]_vars

\* aarch64: the addresses initialize_call_frame stores to
C16_FrameInsideStack ==
    call.op \in {"initialize_call_frame", "fault"} =>
        \A a \in call.writes :
            /\ stack.begin <= a
            /\ a < stack.end
            /\ a >= gpr[SP]

\* the part of it that holds: no store below the installed stack pointer,
\* and none outside the stack unless the stack's end is a multiple of 16
C16_NoneBelowSp ==
    call.op \in {"initialize_call_frame", "fault"} =>
        /\ \A a \in call.writes : a > gpr[SP] /\ stack.begin <= a
        /\ stack.end % ABI_ALIGN # 0 => \A a \in call.writes : a < stack.end
        /\ stack.end % ABI_ALIGN = 0 => stack.end \in call.writes


(***************************************************************************)
(* RegContext::prefetch on x86_64, called by the running code on any       *)
(* context, within the test scenario.                                      *)
(***************************************************************************)
Prefetch(c) ==
    /\ ok
    /\ cur \in Threads
    /\ \E f \in Funcs : reg.rip = Body(f)
    /\ hints' = [of |-> c, sp |-> ctx[c], at |-> prefetch(ctx[c])]
    /\ UNCHANGED <<gpr, words, stack, call>>
    /\ UNCHANGED x86vars

NextHint ==
    \/ NextTest
    \/ \E c \in Threads : Prefetch(c)

SpecHint == InitTest /\ [][NextHint]_vars

(***************************************************************************)
(* C19  prefetch: on every architecture variant, RegContext::prefetch      *)
(* issues its cache hint for the address held in the context's saved stack *)
(* pointer, issues no hint for that address when the saved stack pointer   *)
(* is 0, and leaves the context's registers and all stack memory           *)
(* unchanged.  (hints.sp is the saved stack pointer the call found.)       *)
(***************************************************************************)
Hinted(h, a) == \E i \in DOMAIN h.at : h.at[i] = a

C19_PrefetchHint ==
    [][hints' # hints =>
          /\ hints'.sp # 0 => Hinted(hints', hints'.sp)
          /\ hints'.sp = 0 => ~Hinted(hints', 0)
          /\ UNCHANGED <<reg, mem, ctx, gpr, words>>
      ]_vars

\* x86_64: exactly one hint, for the saved stack pointer, or none when it is 0
C19_PrefetchHintX86 ==
    [][hints' # hints =>
          /\ hints'.sp = ctx[hints'.of]
          /\ hints'.at = IF hints'.sp = 0 THEN <<>> ELSE <<hints'.sp>>
          /\ UNCHANGED x86vars
      ]_vars

\* x86_64: a prefetch of an initialized context has happened, and its one
\* hint was for the saved stack pointer
C19_WitnessX86 ==
    /\ hints.of = 1
    /\ hints.sp # 0
    /\ hints.at = <<ctx[1]>>

\* aarch64: the hints are for the Registers value and for the address in
\* the x20 slot, whatever the stack-pointer slot holds
C19_PrefetchHintA64 ==
    [][hints' # hints =>
          /\ hints'.sp = gpr[SP]
          /\ hints'.at = <<REGS_ADDR, gpr[X20]>>
          /\ UNCHANGED <<gpr, words>>
      ]_vars

====
